---------------------------- MODULE Spec2Model ----------------------------
(***************************************************************************)
(* InvestFlow: the valuation history reconstruction of NetWorthChart       *)
(* (chartData) and the cross-sectional aggregates of Analytics.            *)
(*                                                                         *)
(* Numbers.  The program computes in IEEE doubles; the model computes in   *)
(* integers (amounts in minor units), multiplication exact and division    *)
(* truncated toward zero.  A division whose divisor is 0 yields the        *)
(* non-finite results JavaScript yields (NaN, +/-Infinity).                *)
(*                                                                         *)
(* Time.  An instant is a whole number of hours since an epoch, in UTC.    *)
(* An ISO date string "YYYY-MM-DD" is modelled by its UTC day number.  The  *)
(* date string of a transaction is its field date (the day of its date     *)
(* part) with its field timeOfDay: <<>> for "YYYY-MM-DD", <<h>> for         *)
(* "YYYY-MM-DDThh:00:00.000Z".                                              *)
(* Date.setDate / setFullYear work on the local calendar of the zone the   *)
(* program runs in, Date.toISOString on UTC, as in ECMAScript.             *)
(***************************************************************************)
EXTENDS Integers, Sequences, FiniteSets, TLC

VARIABLES
    assets,          \* props.assets: sequence of Asset records
    transactions,    \* props.transactions: sequence of Transaction records
    baseCurrency,    \* props.baseCurrency
    exchangeRates,   \* props.exchangeRates
    now,             \* the instant new Date() yields while chartData runs
    zone,            \* the time zone of the host
    range,           \* useState<TimeRange>('1M')
    pc,              \* position in chartData: "idle", "loop", "done", "error"
    i,               \* loop counter of the daily loop
    daysDiff,        \* loop bound
    startDate,       \* start of the range (an instant)
    currentNetWorth, \* snapshot net worth
    currentCostBasis,\* snapshot cost basis
    simulatedCost,   \* running cost of the reverse replay
    simulatedValue,  \* running value of the reverse replay
    dataPoints,      \* points pushed so far, newest first
    chartData,       \* value returned by the memo callback
    loopRan,         \* whether the daily loop was entered in this run
    noiseLeft,       \* random draws still explored in full in this run
    view,            \* the memoised aggregates of Analytics
    legacyView,      \* the memoised aggregates of the earlier Analytics
    screen,          \* the component that is observed: "chart", "analytics",
                     \* "form" or "risk" (the risk effect of Analytics)
    form,            \* the state of AddTransactionModal
    risk             \* the risk-assessment state of Analytics and its effect
                     \* runs

vars == <<assets, transactions, baseCurrency, exchangeRates, now, zone, range,
          pc, i, daysDiff, startDate, currentNetWorth, currentCostBasis,
          simulatedCost, simulatedValue, dataPoints, chartData, loopRan,
          noiseLeft, view, legacyView, screen, form, risk>>

inputVars == <<assets, transactions, baseCurrency, exchangeRates, now, zone>>

viewVars == <<view, legacyView, screen>>

formVars == <<form>>

riskVars == <<risk>>

chartVars == <<range, pc, i, daysDiff, startDate, currentNetWorth,
               currentCostBasis, simulatedCost, simulatedValue, dataPoints,
               chartData, loopRan, noiseLeft>>

---------------------------------------------------------------------------
(* Bounds of the model *)

\* The UTC day on which the chart is computed.
Today == 400
\* Random draws are explored in full on the first MaxNoisyDays past days of a
\* run; on the other days the draw is the midpoint 0.5.
MaxNoisyDays == 1
\* Transactions recorded through the form before it stays closed.
MaxRecorded == 1
\* Longest asset list Analytics is run on.
MaxAssets == 9
\* Asset lists up to this length draw every template.
MaxRichAssets == 3
\* Runs of the risk effect of one mounted Analytics.
MaxEffectRuns == 3

---------------------------------------------------------------------------
(* Arithmetic *)

Abs(x) == IF x < 0 THEN -x ELSE x

\* Division of doubles, truncated toward zero to the model's unit.
TruncDiv(a, b) ==
    IF (a >= 0) = (b > 0) THEN Abs(a) \div Abs(b) ELSE -(Abs(a) \div Abs(b))

\* Math.ceil(a / b) for b > 0.
Ceil(a, b) == -((-a) \div b)

HoursPerDay == 24

\* The UTC day of an instant: toISOString().split('T')[0].
toISODate(t) == t \div HoursPerDay

---------------------------------------------------------------------------
(* Time zones and the Date methods the program calls *)

\* A zone has one offset change in the window: `before` applies to instants
\* earlier than `at`, `after` from `at` on (hours east of UTC).
Zones ==
    { [before |-> 0, after |-> 0, at |-> 0],
      [before |-> 1, after |-> 2, at |-> (Today - 2) * HoursPerDay + 1],
      [before |-> 2, after |-> 1, at |-> (Today - 2) * HoursPerDay + 1] }

\* LocalTime(t): the local wall-clock reading of the instant t.
LocalTime(z, t) == t + (IF t < z.at THEN z.before ELSE z.after)

\* UTC(tlocal): a local reading that is repeated or skipped by the offset
\* change is read with the offset in force before the change.
UTCOfLocal(z, tl) ==
    IF tl - z.before < z.at THEN tl - z.before
    ELSE IF tl - z.after >= z.at THEN tl - z.after
    ELSE tl - z.before

\* d.setDate(d.getDate() + delta): delta local calendar days, same local time.
setDate(z, t, delta) == UTCOfLocal(z, LocalTime(z, t) + delta * HoursPerDay)

\* d.setFullYear(d.getFullYear() - 1): the same local date and time one year
\* earlier, yearDays (365 or 366) local calendar days back.
setFullYear(z, t, yearDays) == UTCOfLocal(z, LocalTime(z, t) - yearDays * HoursPerDay)

\* new Date("YYYY-MM-DD").getTime(): midnight UTC of that day.
getTime(date) == date * HoursPerDay

\* new Date(t.date).getTime() for the date string of a transaction.
txTime(t) ==
    getTime(t.date) + (IF t.timeOfDay = <<>> THEN 0 ELSE t.timeOfDay[1])

\* t.date === dateStr: the strings are equal when the transaction's has no
\* time part and names the same day.
dateEquals(t, dateStr) == t.timeOfDay = <<>> /\ t.date = dateStr

---------------------------------------------------------------------------
(* Types and the currency converter *)

AssetTypes == {"Stock", "Crypto", "Fund", "Cash", "RealEstate", "Liability"}
Currencies == {"USD", "EUR"}
TimeRanges == {"1W", "1M", "3M", "6M", "1Y", "ALL"}

\* A rate table: the rate of an ordered pair as a fraction <<num, den>>.  The
\* second table has no rate between two different currencies.
RateTables ==
    { [p \in Currencies \X Currencies |->
         IF p[1] = p[2] THEN <<1, 1>>
         ELSE IF p[1] = "EUR" THEN <<2, 1>> ELSE <<1, 2>>],
      [p \in { <<c, c>> : c \in Currencies } |-> <<1, 1>>] }

\* The pair has no path in the rate table: convertValue fails with
\* MissingExchangeRate instead of returning an amount.
MissingExchangeRate(from, to, rates) ==
    from # to /\ <<from, to>> \notin DOMAIN rates

\* convertValue(amount, from, to, rates) of services/marketData, where the
\* pair has a path.
convertValue(amount, from, to, rates) ==
    IF from = to THEN amount
    ELSE TruncDiv(amount * rates[<<from, to>>][1], rates[<<from, to>>][2])

---------------------------------------------------------------------------
(* Quotients.  The result of a JavaScript division is kept exact, as a     *)
(* reduced fraction; x/0 is NaN for x = 0 and +/-Infinity otherwise.        *)

RECURSIVE GCD(_, _)
GCD(a, b) == IF b = 0 THEN a ELSE GCD(b, a % b)

Num(x) == [finite |-> TRUE, num |-> x, den |-> 1]
NaN == [finite |-> FALSE, num |-> 0, den |-> 0]
Infinity(sign) == [finite |-> FALSE, num |-> sign, den |-> 0]

\* a / b
Divide(a, b) ==
    IF b = 0 THEN (IF a = 0 THEN NaN ELSE Infinity(IF a > 0 THEN 1 ELSE -1))
    ELSE LET g == GCD(Abs(a), Abs(b))
             sgn == IF b < 0 THEN -1 ELSE 1
         IN  [finite |-> TRUE, num |-> sgn * (a \div g), den |-> sgn * (b \div g)]

---------------------------------------------------------------------------
(* NetWorthChart.chartData: the pure parts *)

isLiability(a) == a.type = "Liability"

\* One step of assets.forEach of the current state, on the net worth.
addNetWorth(acc, a, base, rates) ==
    LET val == convertValue(a.quantity * a.currentPrice, a.currency, base, rates)
    IN  IF isLiability(a) THEN acc - val ELSE acc + val

\* Mutant of addCostBasis: the principal of a Liability is added.
addCostBasisUnsigned(acc, a, base, rates) ==
    acc + convertValue(a.quantity * a.avgCost, a.currency, base, rates)

\* One step of assets.forEach of the current state, on the cost basis.
addCostBasis(acc, a, base, rates) ==
    LET c == convertValue(a.quantity * a.avgCost, a.currency, base, rates)
    IN  IF isLiability(a) THEN acc - c ELSE acc + c

RECURSIVE NetWorthOf(_, _, _)
NetWorthOf(as, base, rates) ==
    IF as = <<>> THEN 0
    ELSE addNetWorth(NetWorthOf(SubSeq(as, 1, Len(as) - 1), base, rates),
                     as[Len(as)], base, rates)

RECURSIVE CostBasisOf(_, _, _)
CostBasisOf(as, base, rates) ==
    IF as = <<>> THEN 0
    ELSE addCostBasis(CostBasisOf(SubSeq(as, 1, Len(as) - 1), base, rates),
                      as[Len(as)], base, rates)

\* A convertValue call of the forEach over the assets fails: the exception
\* leaves the callback at that call.
conversionThrows(as, base, rates) ==
    \E k \in 1..Len(as) : MissingExchangeRate(as[k].currency, base, rates)

\* Mutant of chartOutcome: the exception is caught and an empty chart returned.
chartOutcomeSwallowed(threw) == IF threw THEN "done" ELSE "loop"

\* Where chartData continues after the current state is computed: nothing
\* catches an exception of convertValue, so it reaches the caller of the
\* callback.
chartOutcome(threw) == IF threw THEN "error" ELSE "loop"

\* Mutant of noAssets: the early return is missing.
noAssetsUnchecked(as) == FALSE

\* if (assets.length === 0) return [];
noAssets(as) == Len(as) = 0

\* Math.min(...transactions.map(t => new Date(t.date).getTime()))
RECURSIVE minTime(_)
minTime(txs) ==
    IF Len(txs) = 1 THEN txTime(txs[1])
    ELSE LET m == minTime(Tail(txs))
         IN  IF txTime(txs[1]) < m THEN txTime(txs[1]) ELSE m

\* The start of the range: the switch and the two ALL branches.
startDateOf(r, z, t, txs, yearDays) ==
    CASE r = "1W" -> setDate(z, t, -7)
      [] r = "1M" -> setDate(z, t, -30)
      [] r = "3M" -> setDate(z, t, -90)
      [] r = "6M" -> setDate(z, t, -180)
      [] r = "1Y" -> setFullYear(z, t, yearDays)
      [] r = "ALL" -> IF Len(txs) > 0
                      THEN setDate(z, minTime(txs), -7)
                      ELSE setFullYear(z, t, yearDays)

\* Math.ceil((now.getTime() - startDate.getTime()) / (1000 * 3600 * 24))
daysDiffOf(t, start) == Ceil(t - start, HoursPerDay)

\* Array.prototype.sort with (a, b) => time(b) - time(a): stable, newest first.
RECURSIVE insertDesc(_, _)
insertDesc(sorted, t) ==
    IF sorted = <<>> THEN <<t>>
    ELSE IF txTime(sorted[Len(sorted)]) >= txTime(t)
         THEN Append(sorted, t)
         ELSE Append(insertDesc(SubSeq(sorted, 1, Len(sorted) - 1), t),
                     sorted[Len(sorted)])

RECURSIVE sortDesc(_)
sortDesc(txs) ==
    IF txs = <<>> THEN <<>>
    ELSE insertDesc(sortDesc(SubSeq(txs, 1, Len(txs) - 1)), txs[Len(txs)])

\* const sortedTx = [...transactions].sort(...): the sort works on a copy.
sortedTx(txs) == sortDesc(txs)

\* Mutant of transactionsAfterSort: transactions.sort(...) without the copy.
transactionsSortedInPlace(txs) == sortDesc(txs)

\* What the statement that builds sortedTx leaves in props.transactions.
transactionsAfterSort(txs) == txs

\* Mutant of daysTransactions: the filter is missing.
daysTransactionsUnfiltered(txs, dateStr) == sortedTx(txs)

\* sortedTx.filter(t => t.date === dateStr)
daysTransactions(txs, dateStr) ==
    SelectSeq(sortedTx(txs), LAMBDA t : dateEquals(t, dateStr))

\* assets.find(a => a.id === tx.assetId), then txAsset ? txAsset.currency : baseCurrency
txCurrency(tx, as, base) ==
    IF \E k \in 1..Len(as) : as[k].id = tx.assetId
    THEN as[CHOOSE k \in 1..Len(as) :
                /\ as[k].id = tx.assetId
                /\ \A j \in 1..(k - 1) : as[j].id # tx.assetId].currency
    ELSE base

\* Mutant of undoCost: a Sell gives back its total, fee included.
undoCostSellTotal(cost, tx, as, base, rates) ==
    IF tx.type = "BUY"
    THEN cost - convertValue(tx.total, txCurrency(tx, as, base), base, rates)
    ELSE cost + convertValue(tx.total, txCurrency(tx, as, base), base, rates)

\* Mutant of undoCost: the floor is applied after every transaction.
undoCostFloored(cost, tx, as, base, rates) ==
    LET c == IF tx.type = "BUY"
             THEN cost - convertValue(tx.total, txCurrency(tx, as, base), base, rates)
             ELSE cost + convertValue(tx.quantity * tx.price,
                                      txCurrency(tx, as, base), base, rates)
    IN  IF c < 0 THEN 0 ELSE c

\* Undoing one transaction on the simulated cost.
undoCost(cost, tx, as, base, rates) ==
    IF tx.type = "BUY"
    THEN cost - convertValue(tx.total, txCurrency(tx, as, base), base, rates)
    ELSE IF tx.type = "SELL"
    THEN cost + convertValue(tx.quantity * tx.price, txCurrency(tx, as, base), base, rates)
    ELSE cost

\* Undoing one transaction on the simulated value.
undoValue(value, tx, as, base, rates) ==
    LET txVal == convertValue(tx.total, txCurrency(tx, as, base), base, rates)
    IN  IF tx.type = "BUY" THEN value - txVal
        ELSE IF tx.type = "SELL" THEN value + txVal
        ELSE value

RECURSIVE replayCost(_, _, _, _, _)
replayCost(cost, txs, as, base, rates) ==
    IF txs = <<>> THEN cost
    ELSE replayCost(undoCost(cost, Head(txs), as, base, rates), Tail(txs), as, base, rates)

RECURSIVE replayValue(_, _, _, _, _)
replayValue(value, txs, as, base, rates) ==
    IF txs = <<>> THEN value
    ELSE replayValue(undoValue(value, Head(txs), as, base, rates), Tail(txs), as, base, rates)

\* Volatility in thousandths: 0.02 with a Crypto asset, else 0.008.
PerMille == 1000
VolatilityCrypto == 20
VolatilityDefault == 8
hasCrypto(as) == \E k \in 1..Len(as) : as[k].type = "Crypto"
volatility(as) == IF hasCrypto(as) THEN VolatilityCrypto ELSE VolatilityDefault

\* Math.random() yields a value in [0, 1): a fraction <<num, den>>.
RandomDraws == { <<0, 1>>, <<3, 4>> }
MidDraw == <<1, 2>>

\* Mutant of randomFluctuation: the draw is not centred on 0.
randomFluctuationUncentred(draw, vol, value) ==
    TruncDiv(draw[1] * vol * value, draw[2] * PerMille)

\* (Math.random() - 0.5) * volatility * simulatedValue
randomFluctuation(draw, vol, value) ==
    TruncDiv((2 * draw[1] - draw[2]) * vol * value, 2 * draw[2] * PerMille)

\* Mutant of drawsNoise: today's iteration draws as well.
drawsNoiseAlways(k) == TRUE

\* if (i > 0): the iterations that call Math.random() and apply the noise.
drawsNoise(k) == k > 0

\* if (i > 0) simulatedValue -= randomFluctuation
applyNoise(k, value, draw, vol) ==
    IF drawsNoise(k) THEN value - randomFluctuation(draw, vol, value) ELSE value

\* Mutant of clampCost: the clamp is missing.
clampCostMissing(cost) == cost

\* if (simulatedCost < 0) simulatedCost = 0
clampCost(cost) == IF cost < 0 THEN 0 ELSE cost

\* Mutant of pnlPercentOf: the division is not guarded.
pnlPercentUnguarded(value, cost) == Divide((value - cost) * 100, cost)

\* pnlPercent: simulatedCost !== 0 ? ((value - cost) / cost) * 100 : 0
pnlPercentOf(value, cost) ==
    IF cost # 0 THEN Divide((value - cost) * 100, cost) ELSE Num(0)

\* The record pushed to dataPoints.
makePoint(dateStr, timestamp, value, cost) ==
    [date |-> dateStr, timestamp |-> timestamp, value |-> value, cost |-> cost,
     pnl |-> value - cost, pnlPercent |-> pnlPercentOf(value, cost)]

\* Array.prototype.reverse
reverse(s) == [k \in 1..Len(s) |-> s[Len(s) + 1 - k]]

---------------------------------------------------------------------------
(* Analytics: the memoised aggregates *)

RECURSIVE sumSeq(_)
sumSeq(s) == IF s = <<>> THEN 0 ELSE Head(s) + sumSeq(Tail(s))

\* Array.prototype.sort with (a, b) => key(b) - key(a): stable, largest first.
\* The elements are paired with their keys: <<key, element>>.
RECURSIVE insertPairDesc(_, _)
insertPairDesc(sorted, x) ==
    IF sorted = <<>> THEN <<x>>
    ELSE IF sorted[Len(sorted)][1] >= x[1]
         THEN Append(sorted, x)
         ELSE Append(insertPairDesc(SubSeq(sorted, 1, Len(sorted) - 1), x),
                     sorted[Len(sorted)])

RECURSIVE sortPairsDesc(_)
sortPairsDesc(s) ==
    IF s = <<>> THEN <<>>
    ELSE insertPairDesc(sortPairsDesc(SubSeq(s, 1, Len(s) - 1)), s[Len(s)])

\* Mutant of sortByValue: the comparator is (a, b) => a.value - b.value.
sortByValueAscending(s) ==
    LET sorted == sortPairsDesc([k \in 1..Len(s) |-> <<-s[k].value, s[k]>>])
    IN  [k \in 1..Len(s) |-> sorted[k][2]]

\* .sort((a, b) => b.value - a.value)
sortByValue(s) ==
    LET sorted == sortPairsDesc([k \in 1..Len(s) |-> <<s[k].value, s[k]>>])
    IN  [k \in 1..Len(s) |-> sorted[k][2]]

\* .sort((a, b) => b.pnl - a.pnl)
sortByPnl(s) ==
    LET sorted == sortPairsDesc([k \in 1..Len(s) |-> <<s[k].pnl, s[k]>>])
    IN  [k \in 1..Len(s) |-> sorted[k][2]]

\* Array.prototype.slice(0, k)
slice(s, k) == SubSeq(s, 1, IF Len(s) < k THEN Len(s) ELSE k)

\* convertValue(a.quantity * a.currentPrice, a.currency, baseCurrency, rates)
assetValue(a, base, rates) ==
    convertValue(a.quantity * a.currentPrice, a.currency, base, rates)

\* convertValue(a.quantity * a.avgCost, a.currency, baseCurrency, rates)
assetCost(a, base, rates) ==
    convertValue(a.quantity * a.avgCost, a.currency, base, rates)

\* dist[a.type] = (dist[a.type] || 0) + val, keys in order of first insertion
RECURSIVE addToDist(_, _, _)
addToDist(dist, name, val) ==
    IF dist = <<>> THEN << [name |-> name, value |-> val] >>
    ELSE IF Head(dist).name = name
         THEN << [name |-> name, value |-> Head(dist).value + val] >> \o Tail(dist)
         ELSE << Head(dist) >> \o addToDist(Tail(dist), name, val)

\* The filter typeDistribution applies to an asset.
inDistribution(a) == ~isLiability(a)

RECURSIVE distOf(_, _, _)
distOf(as, base, rates) ==
    IF as = <<>> THEN <<>>
    ELSE LET a == as[Len(as)]
             rest == distOf(SubSeq(as, 1, Len(as) - 1), base, rates)
         IN  IF inDistribution(a)
             THEN addToDist(rest, a.type, assetValue(a, base, rates))
             ELSE rest

\* 1. Distribution by Asset Type (Excluding Liabilities)
typeDistribution(as, base, rates) == sortByValue(distOf(as, base, rates))

\* Mutant of inLiabilityDistribution: the filter keeps every asset.
inLiabilityDistributionAll(a) == TRUE

\* The filter liabilityDistribution applies to an asset.
inLiabilityDistribution(a) == isLiability(a)

\* 2. Liabilities Distribution
liabilityDistribution(as, base, rates) ==
    LET debts == SelectSeq(as, inLiabilityDistribution)
    IN  sortByValue([k \in 1..Len(debts) |->
                        [name |-> debts[k].symbol,
                         value |-> assetValue(debts[k], base, rates)]])

\* The values of the assets of a list, converted.
assetValues(as, base, rates) ==
    [k \in 1..Len(as) |-> assetValue(as[k], base, rates)]

totalAssetsOf(as, base, rates) ==
    sumSeq(assetValues(SelectSeq(as, LAMBDA a : ~isLiability(a)), base, rates))

totalLiabilitiesOf(as, base, rates) ==
    sumSeq(assetValues(SelectSeq(as, isLiability), base, rates))

\* Mutant of debtRatio: the quotient is taken whatever the denominator.
debtRatioUnguarded(totalLiabilities, totalAssets) ==
    Divide(totalLiabilities * 100, totalAssets)

\* Mutant of debtRatio: the ratio is not scaled to a percentage.
debtRatioUnscaled(totalLiabilities, totalAssets) ==
    IF totalAssets > 0 THEN Divide(totalLiabilities, totalAssets) ELSE Num(0)

\* ratio: totalAssets > 0 ? (totalLiabilities / totalAssets) * 100 : 0
debtRatio(totalLiabilities, totalAssets) ==
    IF totalAssets > 0 THEN Divide(totalLiabilities * 100, totalAssets) ELSE Num(0)

\* 3. Balance Sheet Summary (Assets vs Liabilities)
balanceSheet(as, base, rates) ==
    [totalAssets |-> totalAssetsOf(as, base, rates),
     totalLiabilities |-> totalLiabilitiesOf(as, base, rates),
     ratio |-> debtRatio(totalLiabilitiesOf(as, base, rates),
                         totalAssetsOf(as, base, rates))]

\* The filter topAssets applies to an asset.
inTopAssets(a) == ~isLiability(a)

\* .slice(0, 6)
TopAssetsK == 6
topSlice(s) == slice(s, TopAssetsK)

\* 4. Top Assets by Value (Excluding Liabilities)
topAssets(as, base, rates) ==
    LET kept == SelectSeq(as, inTopAssets)
    IN  topSlice(sortByValue(
            [k \in 1..Len(kept) |->
                [name |-> kept[k].symbol,
                 value |-> assetValue(kept[k], base, rates),
                 cost |-> assetCost(kept[k], base, rates),
                 pnl |-> assetValue(kept[k], base, rates)
                             - assetCost(kept[k], base, rates)]]))

\* The tier an asset is added to in riskProfile's forEach.
riskTier(a) ==
    IF a.type = "Crypto" THEN "High"
    ELSE IF a.type = "Stock" THEN "Medium"
    ELSE "Low"

riskSum(as, tier, base, rates) ==
    sumSeq(assetValues(SelectSeq(as, LAMBDA a : ~isLiability(a) /\ riskTier(a) = tier),
                       base, rates))

\* Mutant of keepBucket: the buckets are not filtered.
keepBucketAll(x) == TRUE

\* .filter(x => x.value > 0)
keepBucket(x) == x.value > 0

\* 5. Visual Risk Distribution (Assets Only)
riskProfile(as, base, rates) ==
    LET high == riskSum(as, "High", base, rates)
        med == riskSum(as, "Medium", base, rates)
        low == riskSum(as, "Low", base, rates)
    IN  IF high + med + low = 0 THEN <<>>
        ELSE SelectSeq(<< [name |-> "High", value |-> high],
                          [name |-> "Medium", value |-> med],
                          [name |-> "Low", value |-> low] >>, keepBucket)

\* The filter pnlRanking applies to an asset.
inPnlRanking(a) == ~isLiability(a)

\* .slice(0, 8)
PnlRankingK == 8
pnlSlice(s) == slice(s, PnlRankingK)

\* 6. P&L Ranking
pnlRanking(as, base, rates) ==
    LET kept == SelectSeq(as, inPnlRanking)
    IN  pnlSlice(sortByPnl(
            [k \in 1..Len(kept) |->
                [name |-> kept[k].symbol,
                 pnl |-> assetValue(kept[k], base, rates)
                             - assetCost(kept[k], base, rates)]]))

\* What the six memo callbacks leave in the asset list of the context: every
\* sort works on a copy ([...assets]) or on the result of filter / map.
assetsAfterRender(as) == as

---------------------------------------------------------------------------
(* components/Analytics.tsx: the earlier Analytics component *)

rawValue(a) == a.quantity * a.currentPrice
rawCost(a) == a.quantity * a.avgCost

RECURSIVE legacyDistOf(_)
legacyDistOf(as) ==
    IF as = <<>> THEN <<>>
    ELSE addToDist(legacyDistOf(SubSeq(as, 1, Len(as) - 1)),
                   as[Len(as)].type, rawValue(as[Len(as)]))

\* 1. Distribution by Asset Type
legacyTypeDistribution(as) == sortByValue(legacyDistOf(as))

\* 2. Top Assets by Value & Cost Comparison
legacyTopAssets(as) ==
    LET pairs == sortPairsDesc([k \in 1..Len(as) |-> <<rawValue(as[k]), as[k]>>])
        top == slice([k \in 1..Len(as) |-> pairs[k][2]], 6)
    IN  [k \in 1..Len(top) |->
            [name |-> top[k].symbol, value |-> rawValue(top[k]),
             cost |-> rawCost(top[k]), pnl |-> rawValue(top[k]) - rawCost(top[k])]]

rawValues(as) == [k \in 1..Len(as) |-> rawValue(as[k])]

legacyRiskSum(as, tier) ==
    sumSeq(rawValues(SelectSeq(as, LAMBDA a : riskTier(a) = tier)))

\* 3. Risk Analysis
legacyRiskProfile(as) ==
    LET high == legacyRiskSum(as, "High")
        med == legacyRiskSum(as, "Medium")
        low == legacyRiskSum(as, "Low")
    IN  IF high + med + low = 0 THEN <<>>
        ELSE SelectSeq(<< [name |-> "High", value |-> high],
                          [name |-> "Medium", value |-> med],
                          [name |-> "Low", value |-> low] >>, keepBucket)

\* The percentage shown beside each bucket: (p.value / totalVal) * 100 with
\* totalVal = riskProfile.reduce((acc, curr) => acc + curr.value, 0), before
\* it is formatted.
legacyRiskPercents(profile) ==
    LET totalVal == sumSeq([k \in 1..Len(profile) |-> profile[k].value])
    IN  [k \in 1..Len(profile) |-> Divide(profile[k].value * 100, totalVal)]

\* 4. P&L Ranking
legacyPnlRanking(as) ==
    slice(sortByPnl([k \in 1..Len(as) |->
                        [name |-> as[k].symbol, pnl |-> rawValue(as[k]) - rawCost(as[k])]]),
          8)

---------------------------------------------------------------------------
(* Inputs of the chart *)

Asset(id, type, quantity, avgCost, currentPrice, currency) ==
    [id |-> id, symbol |-> id, type |-> type, quantity |-> quantity,
     avgCost |-> avgCost, currentPrice |-> currentPrice, currency |-> currency]

\* Mutant of txTotal: the fee is added whatever the kind.
txTotalFeeAdded(type, qtyNum, priceNum, feeNum) == (qtyNum * priceNum) + feeNum

\* total: (qtyNum * priceNum) + (type === TransactionType.BUY ? feeNum : -feeNum)
txTotal(type, qtyNum, priceNum, feeNum) ==
    (qtyNum * priceNum) + (IF type = "BUY" THEN feeNum ELSE -feeNum)

Tx(id, assetId, type, date, quantity, price, fee) ==
    [id |-> id, assetId |-> assetId, type |-> type, date |-> date,
     timeOfDay |-> <<>>, quantity |-> quantity, price |-> price, fee |-> fee,
     total |-> txTotal(type, quantity, price, fee)]

\* The same transaction with a date string that carries the hour.
atHour(tx, h) == [tx EXCEPT !.timeOfDay = <<h>>]

aStock == Asset("a1", "Stock", 10, 80, 100, "USD")
aCrypto == Asset("a2", "Crypto", 2, 300, 250, "EUR")
aDebt == Asset("a3", "Liability", 1, 5000, 5000, "USD")

ChartAssetLists ==
    { <<>>, <<aStock>>, <<aStock, aCrypto>>, <<aDebt>>, <<aCrypto, aDebt>> }

TxLogs ==
    { <<>>,
      <<Tx("t1", "a1", "BUY", Today, 1, 100, 5)>>,
      <<Tx("t1", "a1", "BUY", Today - 3, 2, 90, 0),
        Tx("t2", "a2", "SELL", Today - 3, 1, 300, 10)>>,
      <<Tx("t1", "a1", "SELL", Today - 5, 20, 100, 0),
        Tx("t2", "a1", "BUY", Today - 2, 30, 100, 10)>>,
      <<Tx("t1", "zz", "BUY", Today - 20, 3, 50, 1)>>,
      <<Tx("t1", "a1", "BUY", Today + 10, 1, 100, 0)>>,
      <<atHour(Tx("t1", "a1", "BUY", Today - 1, 1, 100, 5), 10)>> }

NowHours == {0, 12, 23}
YearDays == {365, 366}

\* The base currencies the chart is run with.
ChartBases == {"USD"}

\* Ranges that reach back a quarter of a year or more are explored on these
\* inputs only; ALL reaches back a year when the log is empty.
LongRangeAssetLists == { <<aStock>> }
LongRangeTxLogs == { <<>>, <<Tx("t1", "a1", "BUY", Today - 3, 2, 90, 0),
                            Tx("t2", "a2", "SELL", Today - 3, 1, 300, 10)>> }
isLongRange(r) ==
    r \in {"3M", "6M", "1Y"} \/ (r = "ALL" /\ Len(transactions) = 0)
Explored(r) ==
    isLongRange(r) =>
        \/ assets = <<>>
        \/ (assets \in LongRangeAssetLists /\ transactions \in LongRangeTxLogs)

---------------------------------------------------------------------------
(* NetWorthChart: the state machine *)

NoView == [computed |-> FALSE]
\* No AddTransactionModal is mounted.
NoForm == [isOpen |-> FALSE]
\* No Analytics whose risk effect is observed is mounted.
NoRisk == [mounted |-> FALSE]
\* A render that an exception of convertValue left.
RenderError == [computed |-> FALSE, error |-> "MissingExchangeRate"]

ChartIdle(r) ==
    /\ range = r
    /\ pc = "idle"
    /\ i = 0
    /\ daysDiff = 0
    /\ startDate = 0
    /\ currentNetWorth = 0
    /\ currentCostBasis = 0
    /\ simulatedCost = 0
    /\ simulatedValue = 0
    /\ dataPoints = <<>>
    /\ chartData = <<>>
    /\ loopRan = FALSE
    /\ noiseLeft = MaxNoisyDays

InitChart ==
    /\ screen = "chart"
    /\ legacyView = NoView
    /\ assets \in ChartAssetLists
    /\ transactions \in TxLogs
    /\ baseCurrency \in ChartBases
    /\ exchangeRates \in RateTables
    /\ now \in { Today * HoursPerDay + h : h \in NowHours }
    /\ zone \in Zones
    /\ ChartIdle("1M")
    /\ view = NoView
    /\ form = NoForm
    /\ risk = NoRisk

\* chartData with no assets: if (assets.length === 0) return [];
ReturnEmpty ==
    /\ screen = "chart"
    /\ pc = "idle"
    /\ noAssets(assets)
    /\ pc' = "done"
    /\ chartData' = <<>>
    /\ UNCHANGED <<range, i, daysDiff, startDate, currentNetWorth,
                   currentCostBasis, simulatedCost, simulatedValue, dataPoints,
                   loopRan, noiseLeft>>
    /\ UNCHANGED inputVars
    /\ UNCHANGED viewVars
    /\ UNCHANGED formVars
    /\ UNCHANGED riskVars

\* chartData up to the daily loop: current state, start date, daysDiff,
\* simulation variables, sortedTx.
Start ==
    /\ screen = "chart"
    /\ pc = "idle"
    /\ ~noAssets(assets)
    /\ IF conversionThrows(assets, baseCurrency, exchangeRates)
       THEN /\ UNCHANGED <<startDate, daysDiff, currentNetWorth, currentCostBasis,
                            simulatedCost, simulatedValue, transactions>>
       ELSE /\ \E yearDays \in YearDays :
                 LET start == startDateOf(range, zone, now, transactions, yearDays)
                 IN  /\ startDate' = start
                     /\ daysDiff' = daysDiffOf(now, start)
            /\ currentNetWorth' = NetWorthOf(assets, baseCurrency, exchangeRates)
            /\ currentCostBasis' = CostBasisOf(assets, baseCurrency, exchangeRates)
            /\ simulatedCost' = CostBasisOf(assets, baseCurrency, exchangeRates)
            /\ simulatedValue' = NetWorthOf(assets, baseCurrency, exchangeRates)
            /\ transactions' = transactionsAfterSort(transactions)
    /\ dataPoints' = <<>>
    /\ i' = 0
    /\ pc' = chartOutcome(conversionThrows(assets, baseCurrency, exchangeRates))
    /\ UNCHANGED <<range, chartData, loopRan, noiseLeft>>
    /\ UNCHANGED <<assets, baseCurrency, exchangeRates, now, zone>>
    /\ UNCHANGED viewVars
    /\ UNCHANGED formVars
    /\ UNCHANGED riskVars

\* One iteration of for (let i = 0; i <= daysDiff; i++).
DayBody(draw) ==
    LET currentDate == setDate(zone, now, -i)
        dateStr == toISODate(currentDate)
        txs == daysTransactions(transactions, dateStr)
        cost == replayCost(simulatedCost, txs, assets, baseCurrency, exchangeRates)
        value == applyNoise(i,
                     replayValue(simulatedValue, txs, assets, baseCurrency, exchangeRates),
                     draw, volatility(assets))
    IN  /\ simulatedCost' = clampCost(cost)
        /\ simulatedValue' = value
        /\ dataPoints' = Append(dataPoints,
                                makePoint(dateStr, currentDate, value, clampCost(cost)))

DayStep ==
    /\ screen = "chart"
    /\ pc = "loop"
    /\ i <= daysDiff
    /\ \/ /\ drawsNoise(i)
          /\ noiseLeft > 0
          /\ noiseLeft' = noiseLeft - 1
          /\ \E draw \in RandomDraws : DayBody(draw)
       \/ /\ ~(drawsNoise(i) /\ noiseLeft > 0)
          /\ noiseLeft' = noiseLeft
          /\ DayBody(MidDraw)
    /\ i' = i + 1
    /\ loopRan' = TRUE
    /\ UNCHANGED <<range, pc, daysDiff, startDate, currentNetWorth,
                   currentCostBasis, chartData>>
    /\ UNCHANGED inputVars
    /\ UNCHANGED viewVars
    /\ UNCHANGED formVars
    /\ UNCHANGED riskVars

\* return dataPoints.reverse();
Return ==
    /\ screen = "chart"
    /\ pc = "loop"
    /\ i > daysDiff
    /\ chartData' = reverse(dataPoints)
    /\ pc' = "done"
    /\ UNCHANGED <<range, i, daysDiff, startDate, currentNetWorth,
                   currentCostBasis, simulatedCost, simulatedValue, dataPoints,
                   loopRan, noiseLeft>>
    /\ UNCHANGED inputVars
    /\ UNCHANGED viewVars
    /\ UNCHANGED formVars
    /\ UNCHANGED riskVars

\* A range button: setRange(r); the memo is computed again.
SetRange ==
    /\ screen = "chart"
    /\ pc = "done"
    /\ \E r \in TimeRanges \ {range} : Explored(r) /\ range' = r
    /\ pc' = "idle"
    /\ i' = 0
    /\ daysDiff' = 0
    /\ startDate' = 0
    /\ currentNetWorth' = 0
    /\ currentCostBasis' = 0
    /\ simulatedCost' = 0
    /\ simulatedValue' = 0
    /\ dataPoints' = <<>>
    /\ chartData' = <<>>
    /\ loopRan' = FALSE
    /\ noiseLeft' = MaxNoisyDays
    /\ UNCHANGED inputVars
    /\ UNCHANGED viewVars
    /\ UNCHANGED formVars
    /\ UNCHANGED riskVars

---------------------------------------------------------------------------
(* Analytics: the state machine *)

AssetIds == <<"a1", "a2", "a3", "a4", "a5", "a6", "a7", "a8", "a9", "a10",
              "a11", "a12">>

\* The assets the portfolio may hold: type, quantity, avgCost, currentPrice,
\* currency.  Quantities, costs and prices are not negative; the form creates
\* an asset with quantity 0.
RichTemplates ==
    { <<"Stock", 10, 80, 100, "USD">>,
      <<"Crypto", 2, 300, 250, "EUR">>,
      <<"Liability", 1, 5000, 5000, "USD">>,
      <<"Liability", 1, 1000, 1000, "EUR">>,
      <<"Cash", 0, 0, 50, "USD">> }
PlainTemplates ==
    { <<"Fund", 1, 50, 40, "USD">>,
      <<"RealEstate", 1, 20, 70, "USD">> }

\* The first MaxRichAssets assets range over RichTemplates; the assets after
\* them alternate between the two plain templates.
TemplatesAt(n) ==
    IF n <= MaxRichAssets THEN RichTemplates
    ELSE { t \in PlainTemplates : (t[1] = "Fund") <=> (n % 2 = 0) }

InitAnalytics ==
    /\ screen = "analytics"
    /\ assets = <<>>
    /\ transactions = <<>>
    /\ baseCurrency \in Currencies
    /\ exchangeRates \in RateTables
    /\ now = Today * HoursPerDay
    /\ zone = [before |-> 0, after |-> 0, at |-> 0]
    /\ ChartIdle("1M")
    /\ view = NoView
    /\ legacyView = NoView
    /\ form = NoForm
    /\ risk = NoRisk

\* The portfolio context hands Analytics a longer asset list.
AssetsChange ==
    /\ screen = "analytics"
    /\ Len(assets) < MaxAssets
    /\ \E t \in TemplatesAt(Len(assets) + 1) :
         assets' = Append(assets,
                          Asset(AssetIds[Len(assets) + 1], t[1], t[2], t[3], t[4], t[5]))
    /\ view' = NoView
    /\ legacyView' = NoView
    /\ UNCHANGED <<transactions, baseCurrency, exchangeRates, now, zone, screen>>
    /\ UNCHANGED chartVars
    /\ UNCHANGED formVars
    /\ UNCHANGED riskVars

\* A render of Analytics: the six useMemo callbacks.
Render ==
    /\ screen = "analytics"
    /\ view' =
         IF conversionThrows(assets, baseCurrency, exchangeRates) THEN RenderError
         ELSE  [computed |-> TRUE,
                typeDistribution |-> typeDistribution(assets, baseCurrency, exchangeRates),
                liabilityDistribution |->
                    liabilityDistribution(assets, baseCurrency, exchangeRates),
                balanceSheet |-> balanceSheet(assets, baseCurrency, exchangeRates),
                topAssets |-> topAssets(assets, baseCurrency, exchangeRates),
                riskProfile |-> riskProfile(assets, baseCurrency, exchangeRates),
                pnlRanking |-> pnlRanking(assets, baseCurrency, exchangeRates)]
    /\ assets' = assetsAfterRender(assets)
    /\ UNCHANGED <<transactions, baseCurrency, exchangeRates, now, zone,
                   legacyView, screen>>
    /\ UNCHANGED chartVars
    /\ UNCHANGED formVars
    /\ UNCHANGED riskVars

\* A render of the earlier Analytics: its four useMemo callbacks.
RenderLegacy ==
    /\ screen = "analytics"
    /\ legacyView' = [computed |-> TRUE,
                      typeDistribution |-> legacyTypeDistribution(assets),
                      topAssets |-> legacyTopAssets(assets),
                      riskProfile |-> legacyRiskProfile(assets),
                      riskPercents |-> legacyRiskPercents(legacyRiskProfile(assets)),
                      pnlRanking |-> legacyPnlRanking(assets)]
    /\ UNCHANGED <<view, screen>>
    /\ UNCHANGED inputVars
    /\ UNCHANGED chartVars
    /\ UNCHANGED formVars
    /\ UNCHANGED riskVars

---------------------------------------------------------------------------
(* AddTransactionModal: the form that records a transaction *)

\* The texts of the number inputs (quantity, price, fee) and what parseFloat
\* reads from them; an empty or invalid number input has the value "".
QuantityTexts == {"", "-1", "0", "2"}
PriceTexts == {"", "-1", "0", "3"}
FeeTexts == {"", "0", "5", "-5"}

parseFloat(text) ==
    CASE text = "" -> NaN
      [] text = "-1" -> Num(-1)
      [] text = "0" -> Num(0)
      [] text = "2" -> Num(2)
      [] text = "3" -> Num(3)
      [] text = "5" -> Num(5)
      [] text = "-5" -> Num(-5)

isNaN(x) == ~x.finite /\ x.num = 0

\* parseFloat(fee) || 0
feeOf(text) == IF isNaN(parseFloat(text)) THEN 0 ELSE parseFloat(text).num

\* The symbols typed for a new asset, and String.prototype.toUpperCase.
SymbolTexts == {"", "tsla"}
toUpperCase(text) == IF text = "tsla" THEN "TSLA" ELSE text

\* crypto.randomUUID(): an id no asset carries yet.
NewAssetIds == <<"n1", "n2", "n3", "n4">>
randomUUID(as) == NewAssetIds[Len(as) + 1]

\* The asset lists the form is opened on.
FormAssetLists == { <<>>, <<aStock>>, <<aStock, aCrypto>> }

\* The state the useState calls create.
FormClosed(today) ==
    [isOpen |-> FALSE, type |-> "BUY", assetId |-> "", date |-> today,
     quantity |-> "", price |-> "", fee |-> "0",
     isNewAsset |-> FALSE, newSymbol |-> "", newType |-> "Stock"]

\* Reset form on open: the effect on [isOpen, assets].
FormReset(as, today) ==
    [isOpen |-> TRUE, type |-> "BUY",
     assetId |-> IF Len(as) > 0 THEN as[1].id ELSE "NEW",
     date |-> today, quantity |-> "", price |-> "", fee |-> "0",
     isNewAsset |-> (Len(as) = 0), newSymbol |-> "", newType |-> "Stock"]

\* addAsset of the portfolio context: the asset joins the list.
addAsset(as, a) == Append(as, a)

\* The id the portfolio context gives a new transaction.
transactionId(txs) == NewAssetIds[Len(txs) + 1]

\* addTransaction of the portfolio context: the transaction joins the log.
addTransaction(txs, t) == Append(txs, t)

InitForm ==
    /\ screen = "form"
    /\ assets \in FormAssetLists
    /\ transactions = <<>>
    /\ baseCurrency = "USD"
    /\ exchangeRates \in { r \in RateTables : DOMAIN r = Currencies \X Currencies }
    /\ now = Today * HoursPerDay
    /\ zone = [before |-> 0, after |-> 0, at |-> 0]
    /\ ChartIdle("1M")
    /\ view = NoView
    /\ legacyView = NoView
    /\ form = FormClosed(Today)
    /\ risk = NoRisk

FormFrame ==
    /\ UNCHANGED <<assets, transactions, baseCurrency, exchangeRates, now, zone>>
    /\ UNCHANGED chartVars
    /\ UNCHANGED viewVars
    /\ UNCHANGED riskVars

\* The parent opens the modal: isOpen becomes true and the reset effect runs.
Open ==
    /\ screen = "form"
    /\ ~form.isOpen
    /\ Len(transactions) < MaxRecorded
    /\ form' = FormReset(assets, toISODate(now))
    /\ FormFrame

\* The close button: onClose.
Close ==
    /\ screen = "form"
    /\ form.isOpen
    /\ form' = [form EXCEPT !.isOpen = FALSE]
    /\ FormFrame

\* The Buy button of the toggle.
ClickBuy ==
    /\ screen = "form"
    /\ form.isOpen
    /\ form' = [form EXCEPT !.type = "BUY"]
    /\ FormFrame

\* The Sell button of the toggle.
ClickSell ==
    /\ screen = "form"
    /\ form.isOpen
    /\ form' = IF form.isNewAsset
               THEN [form EXCEPT !.type = "SELL", !.isNewAsset = FALSE,
                                 !.assetId = IF Len(assets) > 0 THEN assets[1].id ELSE ""]
               ELSE [form EXCEPT !.type = "SELL"]
    /\ FormFrame

\* The options the asset select offers: the assets, and NEW while buying.
assetOptions ==
    { assets[k].id : k \in 1..Len(assets) }
        \cup (IF form.type = "BUY" THEN {"NEW"} ELSE {})

handleAssetChange ==
    /\ screen = "form"
    /\ form.isOpen
    /\ \E value \in assetOptions :
         form' = IF value = "NEW"
                 THEN [form EXCEPT !.isNewAsset = TRUE, !.assetId = "NEW", !.type = "BUY"]
                 ELSE [form EXCEPT !.isNewAsset = FALSE, !.assetId = value]
    /\ FormFrame

\* The onChange handlers of the quantity, price, fee and symbol inputs.
EditField ==
    /\ screen = "form"
    /\ form.isOpen
    /\ \/ \E text \in QuantityTexts : form' = [form EXCEPT !.quantity = text]
       \/ \E text \in PriceTexts : form' = [form EXCEPT !.price = text]
       \/ \E text \in FeeTexts : form' = [form EXCEPT !.fee = text]
       \/ form.isNewAsset /\ \E text \in SymbolTexts : form' = [form EXCEPT !.newSymbol = text]
    /\ FormFrame

\* if (isNaN(qtyNum) || isNaN(priceNum) || qtyNum <= 0 || priceNum < 0) return;
rejected(qty, price) ==
    \/ isNaN(qty)
    \/ isNaN(price)
    \/ qty.num <= 0
    \/ price.num < 0

handleSubmit ==
    /\ screen = "form"
    /\ form.isOpen
    /\ LET qtyNum == parseFloat(form.quantity)
           priceNum == parseFloat(form.price)
           feeNum == feeOf(form.fee)
           newId == randomUUID(assets)
           targetAssetId == IF form.isNewAsset THEN newId ELSE form.assetId
       IN  IF rejected(qtyNum, priceNum) \/ (form.isNewAsset /\ form.newSymbol = "")
           THEN UNCHANGED <<assets, transactions, form>>
           ELSE /\ assets' =
                     IF form.isNewAsset
                     THEN addAsset(assets,
                              [id |-> newId, symbol |-> toUpperCase(form.newSymbol),
                               type |-> form.newType, quantity |-> 0, avgCost |-> 0,
                               currentPrice |-> priceNum.num, currency |-> "USD"])
                     ELSE assets
                /\ transactions' =
                     addTransaction(transactions,
                         [id |-> transactionId(transactions), assetId |-> targetAssetId,
                          type |-> form.type, date |-> form.date,
                          timeOfDay |-> <<>>,
                          quantity |-> qtyNum.num, price |-> priceNum.num,
                          fee |-> feeNum,
                          total |-> txTotal(form.type, qtyNum.num, priceNum.num, feeNum)])
                /\ form' = [form EXCEPT !.isOpen = FALSE]
    /\ UNCHANGED <<baseCurrency, exchangeRates, now, zone>>
    /\ UNCHANGED chartVars
    /\ UNCHANGED viewVars
    /\ UNCHANGED riskVars

---------------------------------------------------------------------------
(* Analytics: the risk-assessment effect *)

\* settings.geminiApiKey: no key, or one of two keys.
ApiKeys == {"", "key1", "key2"}

\* The asset lists the portfolio context hands the effect.
RiskAssetLists == { <<>>, <<aStock>>, <<aStock, aCrypto>> }

\* The state the useState calls create; no effect has run.  riskData is <<>>
\* for null and <<r>> for the assessment the request of run r returned.
RiskMounted(key) ==
    [mounted |-> TRUE, apiKey |-> key, riskData |-> <<>>,
     loadingRisk |-> FALSE, riskError |-> FALSE, runs |-> <<>>]

\* return () => { isMounted = false; } of the effect that ran last.
cleanup(runs) ==
    IF runs = <<>> THEN runs
    ELSE [runs EXCEPT ![Len(runs)].isMounted = FALSE]

\* Mutant of isMountedOf: the continuation does not look at the flag.
isMountedAlways(run) == TRUE

\* if (isMounted) in the continuation of a run's fetchRisk.
isMountedOf(run) == run.isMounted

\* One run of the effect: let isMounted = true, and fetchRisk up to its await.
effectRun(rk, as, key) ==
    LET fetches == Len(as) > 0 /\ key # ""
    IN  [rk EXCEPT
           !.apiKey = key,
           !.runs = Append(cleanup(rk.runs),
                           [isMounted |-> TRUE,
                            request |-> IF fetches THEN "pending" ELSE "none"]),
           !.loadingRisk = IF fetches THEN TRUE ELSE rk.loadingRisk,
           !.riskError = IF Len(as) = 0 THEN rk.riskError ELSE key = ""]

\* getRiskAssessment resolves: the rest of try, then finally.
fetchResolved(rk, r) ==
    IF isMountedOf(rk.runs[r])
    THEN [rk EXCEPT !.riskData = <<r>>, !.loadingRisk = FALSE,
                    !.runs[r].request = "resolved"]
    ELSE [rk EXCEPT !.runs[r].request = "resolved"]

\* getRiskAssessment rejects: catch, then finally.
fetchRejected(rk, r) ==
    IF isMountedOf(rk.runs[r])
    THEN [rk EXCEPT !.riskError = TRUE, !.loadingRisk = FALSE,
                    !.runs[r].request = "rejected"]
    ELSE [rk EXCEPT !.runs[r].request = "rejected"]

InitRisk ==
    /\ screen = "risk"
    /\ assets \in RiskAssetLists
    /\ transactions = <<>>
    /\ baseCurrency = "USD"
    /\ exchangeRates \in { r \in RateTables : DOMAIN r = Currencies \X Currencies }
    /\ now = Today * HoursPerDay
    /\ zone = [before |-> 0, after |-> 0, at |-> 0]
    /\ ChartIdle("1M")
    /\ view = NoView
    /\ legacyView = NoView
    /\ form = NoForm
    /\ risk \in { RiskMounted(key) : key \in ApiKeys }

RiskFrame ==
    /\ UNCHANGED <<transactions, baseCurrency, exchangeRates, now, zone>>
    /\ UNCHANGED chartVars
    /\ UNCHANGED viewVars
    /\ UNCHANGED formVars

\* The effect runs after the first render.
FirstEffect ==
    /\ screen = "risk"
    /\ risk.mounted
    /\ risk.runs = <<>>
    /\ risk' = effectRun(risk, assets, risk.apiKey)
    /\ UNCHANGED assets
    /\ RiskFrame

\* assets or settings.geminiApiKey change: the cleanup of the last run, then
\* the effect again.
DepsChange ==
    /\ screen = "risk"
    /\ risk.mounted
    /\ risk.runs # <<>>
    /\ Len(risk.runs) < MaxEffectRuns
    /\ \E as \in RiskAssetLists, key \in ApiKeys :
         /\ as # assets \/ key # risk.apiKey
         /\ assets' = as
         /\ risk' = effectRun(risk, as, key)
    /\ RiskFrame

\* The request of a run resolves.
Resolve ==
    /\ screen = "risk"
    /\ \E r \in 1..Len(risk.runs) :
         /\ risk.runs[r].request = "pending"
         /\ risk' = fetchResolved(risk, r)
    /\ UNCHANGED assets
    /\ RiskFrame

\* The request of a run rejects.
Reject ==
    /\ screen = "risk"
    /\ \E r \in 1..Len(risk.runs) :
         /\ risk.runs[r].request = "pending"
         /\ risk' = fetchRejected(risk, r)
    /\ UNCHANGED assets
    /\ RiskFrame

\* Analytics is unmounted: the cleanup of the last run.
Unmount ==
    /\ screen = "risk"
    /\ risk.mounted
    /\ risk' = [risk EXCEPT !.mounted = FALSE, !.runs = cleanup(risk.runs)]
    /\ UNCHANGED assets
    /\ RiskFrame

Init == InitChart \/ InitAnalytics \/ InitForm \/ InitRisk

Next ==
    \/ ReturnEmpty \/ Start \/ DayStep \/ Return \/ SetRange
    \/ AssetsChange \/ Render \/ RenderLegacy
    \/ Open \/ Close \/ ClickBuy \/ ClickSell \/ handleAssetChange
    \/ EditField \/ handleSubmit
    \/ FirstEffect \/ DepsChange \/ Resolve \/ Reject \/ Unmount

Spec == Init /\ [][Next]_vars

\* The risk effect alone.
RiskNext == FirstEffect \/ DepsChange \/ Resolve \/ Reject \/ Unmount

RiskSpec == InitRisk /\ [][RiskNext]_vars

\* Every request that was started resolves or rejects in the end.
RiskLive == RiskSpec /\ WF_vars(Resolve \/ Reject)

---------------------------------------------------------------------------
(* Properties *)

ChartDone == screen = "chart" /\ pc = "done"
FixedZone == zone.before = zone.after

\* The asset of the list that carries the symbol.
assetOfSymbol(sym) == assets[CHOOSE k \in 1..Len(assets) : assets[k].symbol = sym]

valuesOf(s) == [k \in 1..Len(s) |-> s[k].value]

\* C1: for a non-empty asset list the point returned for today (the last one)
\* has value = snapshot net worth and cost = snapshot cost basis.
C1_TodayIsSnapshot ==
    (ChartDone /\ Len(assets) > 0) =>
        /\ Len(chartData) > 0
        /\ chartData[Len(chartData)].value =
               NetWorthOf(assets, baseCurrency, exchangeRates)
        /\ chartData[Len(chartData)].cost =
               CostBasisOf(assets, baseCurrency, exchangeRates)

\* The number of calendar days from the start date of the range to today.
daysInRange == toISODate(now) - toISODate(startDate)

\* C2: the returned sequence has daysInRange + 1 points, its dates increase by
\* exactly one day per step, and its last point is dated today.
C2_LengthAndDates ==
    (ChartDone /\ Len(assets) > 0) =>
        /\ Len(chartData) = daysInRange + 1
        /\ \A k \in 1..(Len(chartData) - 1) :
               chartData[k + 1].date = chartData[k].date + 1
        /\ chartData[Len(chartData)].date = toISODate(now)

\* C3: the values of the emitted risk buckets sum to the total value of the
\* non-Liability assets (the balance sheet's totalAssets), in Analytics and in
\* the earlier Analytics.
C3_RiskBucketsPartition ==
    /\ view.computed =>
           sumSeq(valuesOf(view.riskProfile)) = view.balanceSheet.totalAssets
    /\ legacyView.computed =>
           sumSeq(valuesOf(legacyView.riskProfile)) =
               sumSeq(rawValues(SelectSeq(assets, LAMBDA a : ~isLiability(a))))

\* No entry of a ranked list names a Liability asset.
NoLiabilityIn(entries) ==
    \A k \in 1..Len(entries) : ~isLiability(assetOfSymbol(entries[k].name))

\* C4: top holdings hold no Liability asset and at most 6 entries, the P&L
\* ranking no Liability asset and at most 8 entries, in Analytics and in the
\* earlier Analytics.
C4_TopListsBounded ==
    /\ view.computed =>
           /\ Len(view.topAssets) <= 6 /\ NoLiabilityIn(view.topAssets)
           /\ Len(view.pnlRanking) <= 8 /\ NoLiabilityIn(view.pnlRanking)
    /\ legacyView.computed =>
           /\ Len(legacyView.topAssets) <= 6 /\ NoLiabilityIn(legacyView.topAssets)
           /\ Len(legacyView.pnlRanking) <= 8 /\ NoLiabilityIn(legacyView.pnlRanking)

\* C5: the debt ratio is 0 when no asset is a Liability; when total
\* liabilities and total assets are both positive it is positive and equals
\* totalLiabilities / totalAssets * 100.
C5_DebtRatio ==
    view.computed =>
        LET sheet == view.balanceSheet
        IN  /\ (\A k \in 1..Len(assets) : ~isLiability(assets[k])) =>
                   sheet.ratio = Num(0)
            /\ (sheet.totalLiabilities > 0 /\ sheet.totalAssets > 0) =>
                   /\ sheet.ratio.finite
                   /\ sheet.ratio.num > 0
                   /\ sheet.ratio.den > 0
                   /\ sheet.ratio.num * sheet.totalAssets =
                          sheet.totalLiabilities * 100 * sheet.ratio.den

C5_Witness ==
    /\ view.computed
    /\ view.balanceSheet.totalLiabilities > 0
    /\ view.balanceSheet.totalAssets > 0
    /\ view.balanceSheet.totalLiabilities # view.balanceSheet.totalAssets

C7_EmptyAssets ==
    (screen = "chart" /\ Len(assets) = 0) =>
        /\ pc # "loop"
        /\ ~loopRan
        /\ pc = "done" => chartData = <<>>

C7_Witness ==
    /\ ChartDone
    /\ Len(assets) = 0
    /\ Len(transactions) > 0
    /\ range = "ALL"

\* A point whose pnl and pnlPercent agree with its value and cost.
PointConsistent(p) ==
    /\ p.pnl = p.value - p.cost
    /\ p.pnlPercent.finite
    /\ p.cost = 0 => p.pnlPercent = Num(0)
    /\ p.cost # 0 =>
           /\ p.pnlPercent.den > 0
           /\ p.pnlPercent.num * p.cost = (p.value - p.cost) * 100 * p.pnlPercent.den

\* C8: every emitted point has pnl = value - cost and a finite pnlPercent,
\* 0 when cost is 0 and (value - cost) / cost * 100 otherwise.
C8_PointsConsistent ==
    /\ \A k \in 1..Len(dataPoints) : PointConsistent(dataPoints[k])
    /\ \A k \in 1..Len(chartData) : PointConsistent(chartData[k])

C8_Witness ==
    /\ ChartDone
    /\ \E k \in 1..Len(chartData) : chartData[k].cost = 0 /\ chartData[k].value # 0
    /\ \E k \in 1..Len(chartData) : chartData[k].cost # 0 /\ chartData[k].pnl # 0

\* C9: every point of the returned sequence has cost >= 0.
C9_CostNonNegative ==
    /\ \A k \in 1..Len(dataPoints) : dataPoints[k].cost >= 0
    /\ \A k \in 1..Len(chartData) : chartData[k].cost >= 0

C9_Witness ==
    /\ ChartDone
    /\ Len(chartData) > 0
    /\ currentCostBasis < 0

\* C10: for range ALL with a non-empty log the sequence is not empty and its
\* oldest point is dated 7 days before the earliest transaction; with an
\* empty log the oldest point is dated one year before today.
C10_AllRangeStart ==
    (ChartDone /\ Len(assets) > 0 /\ range = "ALL") =>
        /\ Len(chartData) > 0
        /\ Len(transactions) > 0 =>
               chartData[1].date = toISODate(minTime(transactions)) - 7
        /\ Len(transactions) = 0 =>
               toISODate(now) - chartData[1].date \in YearDays

\* The number of days the fixed ranges reach back.
daysBack(r) ==
    CASE r = "1W" -> 7 [] r = "1M" -> 30 [] r = "3M" -> 90
      [] r = "6M" -> 180 [] r = "1Y" -> 365

\* C11: for the ranges 1W, 1M, 3M, 6M and 1Y the oldest returned point is dated
\* exactly 7, 30, 90, 180 and 365 days before today.
C11_FixedRangeStart ==
    (ChartDone /\ Len(assets) > 0 /\ range # "ALL") =>
        /\ Len(chartData) > 0
        /\ chartData[1].date = toISODate(now) - daysBack(range)

\* Some asset's currency has no path to the base currency in the rate table.
rateMissing ==
    \E k \in 1..Len(assets) :
        MissingExchangeRate(assets[k].currency, baseCurrency, exchangeRates)

assetClasses == { assets[k].type : k \in { j \in 1..Len(assets) : ~isLiability(assets[j]) } }

\* The value of the assets of a class, in the base currency.
RECURSIVE classValue(_, _)
classValue(as, class) ==
    IF as = <<>> THEN 0
    ELSE (IF Head(as).type = class
          THEN assetValue(Head(as), baseCurrency, exchangeRates) ELSE 0)
         + classValue(Tail(as), class)

\* The value of the assets of a class without conversion, as the earlier
\* Analytics, which knows no base currency, values them.
RECURSIVE rawClassValue(_, _)
rawClassValue(as, class) ==
    IF as = <<>> THEN 0
    ELSE (IF Head(as).type = class THEN rawValue(Head(as)) ELSE 0)
         + rawClassValue(Tail(as), class)

nonIncreasing(s) == \A k \in 1..(Len(s) - 1) : s[k].value >= s[k + 1].value

\* C13: the allocation view has exactly one entry per class tag of the
\* non-Liability assets, valued at the sum of the values of the assets of the
\* class, no Liability entry, and is in non-increasing order of value, in
\* Analytics and in the earlier Analytics.
C13_Allocation ==
    /\ view.computed =>
           LET dist == view.typeDistribution
           IN  /\ { dist[k].name : k \in 1..Len(dist) } = assetClasses
               /\ Len(dist) = Cardinality(assetClasses)
               /\ \A k \in 1..Len(dist) :
                      dist[k].value = classValue(assets, dist[k].name)
               /\ nonIncreasing(dist)
    /\ legacyView.computed =>
           LET dist == legacyView.typeDistribution
           IN  /\ { dist[k].name : k \in 1..Len(dist) } = assetClasses
               /\ Len(dist) = Cardinality(assetClasses)
               /\ \A k \in 1..Len(dist) :
                      dist[k].value = rawClassValue(assets, dist[k].name)
               /\ nonIncreasing(dist)

\* The Liability assets of the list, in list order.
liabilities == SelectSeq(assets, isLiability)

\* The portfolio holds one Liability of value 5000 and nothing else.
oneDebtOf5000 ==
    /\ Len(assets) = 1
    /\ isLiability(assets[1])
    /\ assetValue(assets[1], baseCurrency, exchangeRates) = 5000

\* C14 as stated: the liability breakdown groups like the allocation view, one
\* entry per group with the summed value, in non-increasing order; a single
\* Liability of 5000 gives one entry of 5000 and an empty allocation view.
C14_LiabilityGrouped ==
    view.computed =>
        LET dist == view.liabilityDistribution
        IN  /\ Len(dist) = (IF liabilities = <<>> THEN 0 ELSE 1)
            /\ \A k \in 1..Len(dist) :
                   dist[k].value = classValue(assets, "Liability")
            /\ nonIncreasing(dist)
            /\ oneDebtOf5000 =>
                   valuesOf(dist) = <<5000>> /\ view.typeDistribution = <<>>

\* C14 amended: the liability breakdown has exactly one entry per Liability
\* asset, carrying that asset's value in the base currency, in non-increasing
\* order; a single Liability of 5000 gives one entry of 5000 and an empty
\* allocation view.
C14_LiabilityPerAsset ==
    view.computed =>
        LET dist == view.liabilityDistribution
        IN  /\ Len(dist) = Len(liabilities)
            /\ { dist[k].name : k \in 1..Len(dist) } =
                   { liabilities[k].symbol : k \in 1..Len(liabilities) }
            /\ \A k \in 1..Len(dist) :
                   /\ isLiability(assetOfSymbol(dist[k].name))
                   /\ dist[k].value = assetValue(assetOfSymbol(dist[k].name),
                                                 baseCurrency, exchangeRates)
            /\ nonIncreasing(dist)
            /\ oneDebtOf5000 =>
                   valuesOf(dist) = <<5000>> /\ view.typeDistribution = <<>>

C14_Witness ==
    /\ view.computed
    /\ Len(liabilities) = 2
    /\ Len(assets) > 2
    /\ view.liabilityDistribution[1].name = liabilities[2].symbol
    /\ view.liabilityDistribution[1].value > view.liabilityDistribution[2].value

\* C15: when the total non-Liability value is 0 the balance sheet reports
\* ratio 0 and the sum of the Liability values as totalLiabilities; the ratio
\* is always a finite number.
C15_RatioZeroDenominator ==
    view.computed =>
        LET sheet == view.balanceSheet
        IN  /\ sheet.ratio.finite
            /\ sheet.totalLiabilities = classValue(assets, "Liability")
            /\ sumSeq(assetValues(SelectSeq(assets, LAMBDA a : ~isLiability(a)),
                                  baseCurrency, exchangeRates)) = 0 =>
                   /\ sheet.totalAssets = 0
                   /\ sheet.ratio = Num(0)

C15_Witness ==
    /\ view.computed
    /\ Len(assets) > 0
    /\ \A k \in 1..Len(assets) : isLiability(assets[k])
    /\ view.balanceSheet.totalLiabilities > 0
    /\ view.balanceSheet.totalAssets = 0

\* The summed value of a risk tier: High is Crypto, Medium is Stock, Low is
\* every other non-Liability class.
tierValue(name) ==
    CASE name = "High" -> classValue(assets, "Crypto")
      [] name = "Medium" -> classValue(assets, "Stock")
      [] name = "Low" -> classValue(assets, "Fund") + classValue(assets, "Cash")
                           + classValue(assets, "RealEstate")

\* C16: every emitted risk bucket has a value other than 0, which is the
\* summed value of its tier, and the total that divides the bucket
\* percentages is not 0 when a bucket is emitted.
C16_RiskBuckets ==
    /\ view.computed =>
           LET profile == view.riskProfile
           IN  /\ \A k \in 1..Len(profile) :
                      /\ profile[k].value # 0
                      /\ profile[k].value = tierValue(profile[k].name)
               /\ Len(profile) > 0 => sumSeq(valuesOf(profile)) # 0
    /\ legacyView.computed =>
           /\ \A k \in 1..Len(legacyView.riskProfile) :
                  legacyView.riskProfile[k].value # 0
           /\ Len(legacyView.riskProfile) > 0 =>
                  sumSeq(valuesOf(legacyView.riskProfile)) # 0
           /\ \A k \in 1..Len(legacyView.riskPercents) :
                  legacyView.riskPercents[k].finite

C16_Witness ==
    /\ view.computed
    /\ legacyView.computed
    /\ Len(view.riskProfile) = 2
    /\ Len(legacyView.riskPercents) = 2
    /\ \E k \in 1..Len(assets) :
           ~isLiability(assets[k]) /\ assetValue(assets[k], baseCurrency, exchangeRates) = 0

\* The symbols a ranked list names.
namesOf(entries) == { entries[k].name : k \in 1..Len(entries) }

\* C17: top holdings are in non-increasing order of value, every non-Liability
\* asset left out is worth no more than the least entry, and every entry
\* carries the converted value and cost of the asset it names.
C17_TopHoldingsOrder ==
    view.computed =>
        LET top == view.topAssets
        IN  /\ nonIncreasing(top)
            /\ \A k \in 1..Len(top) :
                   LET a == assetOfSymbol(top[k].name)
                   IN  /\ top[k].value =
                              convertValue(a.quantity * a.currentPrice, a.currency,
                                           baseCurrency, exchangeRates)
                       /\ top[k].cost =
                              convertValue(a.quantity * a.avgCost, a.currency,
                                           baseCurrency, exchangeRates)
            /\ \A j \in 1..Len(assets) :
                   (~isLiability(assets[j]) /\ assets[j].symbol \notin namesOf(top)) =>
                       /\ Len(top) > 0
                       /\ assetValue(assets[j], baseCurrency, exchangeRates)
                              <= top[Len(top)].value

C17_Witness ==
    /\ view.computed
    /\ Len(view.topAssets) = 6
    /\ Len(SelectSeq(assets, LAMBDA a : ~isLiability(a))) > 6
    /\ view.topAssets[1].value > view.topAssets[6].value
    /\ view.topAssets[1].name # assets[1].symbol

\* value - cost of an asset, in the base currency.
pnlOf(a) == assetValue(a, baseCurrency, exchangeRates)
                - assetCost(a, baseCurrency, exchangeRates)

\* C18: the P&L ranking is in non-increasing order of value - cost and its last
\* entry is a non-Liability asset with the least value - cost of the
\* non-Liability assets of the portfolio.
C18_PnlTailIsWorst ==
    view.computed =>
        LET ranking == view.pnlRanking
        IN  /\ \A k \in 1..(Len(ranking) - 1) : ranking[k].pnl >= ranking[k + 1].pnl
            /\ Len(ranking) > 0 =>
                   /\ ~isLiability(assetOfSymbol(ranking[Len(ranking)].name))
                   /\ \A j \in 1..Len(assets) :
                          ~isLiability(assets[j]) =>
                              ranking[Len(ranking)].pnl <= pnlOf(assets[j])

\* The converted costs of the assets of a list.
assetCosts(as) ==
    [k \in 1..Len(as) |-> assetCost(as[k], baseCurrency, exchangeRates)]

\* C19: the snapshot net worth is the summed value of the non-Liability assets
\* minus the summed value of the Liability assets, and the snapshot cost basis
\* the same with quantity x avgCost.
C19_SnapshotSums ==
    (screen = "chart" /\ pc \in {"loop", "done"} /\ Len(assets) > 0) =>
        /\ currentNetWorth =
               sumSeq(assetValues(SelectSeq(assets, LAMBDA a : ~isLiability(a)),
                                  baseCurrency, exchangeRates))
               - sumSeq(assetValues(liabilities, baseCurrency, exchangeRates))
        /\ currentCostBasis =
               sumSeq(assetCosts(SelectSeq(assets, LAMBDA a : ~isLiability(a))))
               - sumSeq(assetCosts(liabilities))

C19_Witness ==
    /\ ChartDone
    /\ Len(liabilities) > 0
    /\ Len(liabilities) < Len(assets)
    /\ \E k \in 1..Len(assets) : assets[k].currency # baseCurrency
    /\ currentNetWorth < 0

\* C20: every transaction the form records has total = quantity x price + fee
\* when it is a Buy and quantity x price - fee when it is a Sell.
C20_FormTotal ==
    screen = "form" =>
        \A k \in 1..Len(transactions) :
            LET t == transactions[k]
            IN  /\ t.type = "BUY" => t.total = t.quantity * t.price + t.fee
                /\ t.type = "SELL" => t.total = t.quantity * t.price - t.fee

C20_Witness ==
    /\ screen = "form"
    /\ \E k \in 1..Len(transactions) :
           /\ transactions[k].type = "SELL"
           /\ transactions[k].fee > 0
           /\ transactions[k].price > 0

\* The point pushed last, the number of its iteration, and the running totals
\* its iteration started from.
lastIndex == Len(dataPoints)
lastPoint == dataPoints[lastIndex]
costBefore == IF lastIndex = 1 THEN currentCostBasis ELSE dataPoints[lastIndex - 1].cost
valueBefore == IF lastIndex = 1 THEN currentNetWorth ELSE dataPoints[lastIndex - 1].value

\* C21: the date and the cost of every point, and the value of today's point,
\* are fixed by the inputs alone (the date by the iteration number, the cost by
\* the cost of the iteration before and the day's transactions), so two runs
\* that differ in their random draws agree on them; the sequence returned is
\* the sequence of the points pushed, reversed.
C21_NoiseOnlyOnValue ==
    /\ (screen = "chart" /\ lastIndex > 0) =>
           LET txs == daysTransactions(transactions, lastPoint.date)
           IN  /\ lastPoint.date = toISODate(setDate(zone, now, -(lastIndex - 1)))
               /\ lastPoint.timestamp = setDate(zone, now, -(lastIndex - 1))
               /\ lastPoint.cost =
                      clampCost(replayCost(costBefore, txs, assets,
                                           baseCurrency, exchangeRates))
               /\ lastIndex = 1 =>
                      lastPoint.value =
                          replayValue(currentNetWorth, txs, assets,
                                      baseCurrency, exchangeRates)
    /\ ChartDone => chartData = reverse(dataPoints)

C21_Witness ==
    /\ ChartDone
    /\ Len(transactions) > 0
    /\ \E k \in 2..Len(chartData) :
           chartData[k - 1].value # chartData[k].value
               /\ chartData[k - 1].cost = chartData[k].cost
               /\ chartData[k].cost > 0

\* simulatedValue of the iteration of the point pushed last, after the day's
\* transactions are undone and before the perturbation.
valueUndone ==
    replayValue(valueBefore, daysTransactions(transactions, lastPoint.date),
                assets, baseCurrency, exchangeRates)

\* C22: the perturbation of a past day is at most half of volatility x
\* |simValue| in magnitude, with volatility 0.02 when some asset is Crypto and
\* 0.008 otherwise; today's value carries no perturbation.
C22_NoiseBound ==
    (screen = "chart" /\ lastIndex > 0) =>
        LET vol == IF \E k \in 1..Len(assets) : assets[k].type = "Crypto"
                   THEN VolatilityCrypto ELSE VolatilityDefault
        IN  /\ lastIndex = 1 => lastPoint.value = valueUndone
            /\ lastIndex > 1 =>
                   2 * PerMille * Abs(valueUndone - lastPoint.value)
                       <= vol * Abs(valueUndone)

C22_Witness ==
    /\ screen = "chart"
    /\ lastIndex > 1
    /\ \E k \in 1..Len(assets) : assets[k].type = "Crypto"
    /\ valueUndone # lastPoint.value
    /\ 2 * PerMille * Abs(valueUndone - lastPoint.value) =
           VolatilityCrypto * Abs(valueUndone)

\* The base-currency total of a transaction, and of its quantity x price.
baseTotal(tx) ==
    convertValue(tx.total, txCurrency(tx, assets, baseCurrency),
                 baseCurrency, exchangeRates)
baseMarket(tx) ==
    convertValue(tx.quantity * tx.price, txCurrency(tx, assets, baseCurrency),
                 baseCurrency, exchangeRates)

\* What undoing the transactions of a list takes from the running cost and
\* from the running value, as the claim words it.
RECURSIVE costUndone(_)
costUndone(txs) ==
    IF txs = <<>> THEN 0
    ELSE (IF Head(txs).type = "BUY" THEN baseTotal(Head(txs))
          ELSE -baseMarket(Head(txs))) + costUndone(Tail(txs))

RECURSIVE valueTaken(_)
valueTaken(txs) ==
    IF txs = <<>> THEN 0
    ELSE (IF Head(txs).type = "BUY" THEN baseTotal(Head(txs))
          ELSE -baseTotal(Head(txs))) + valueTaken(Tail(txs))

\* The transactions the iteration of the point pushed last has undone.
undoneLast == daysTransactions(transactions, lastPoint.date)

\* C23: an iteration lowers the running cost by the base-currency total of
\* each Buy it undoes and raises it by the base-currency quantity x price of
\* each Sell; it lowers the running value by the base-currency total of each
\* Buy and raises it by the base-currency total of each Sell; nothing else of
\* the totals changes but by the cost floor and the perturbation.
C23_UndoSemantics ==
    (screen = "chart" /\ lastIndex > 0) =>
        /\ lastPoint.cost =
               (IF costBefore - costUndone(undoneLast) < 0 THEN 0
                ELSE costBefore - costUndone(undoneLast))
        /\ valueUndone = valueBefore - valueTaken(undoneLast)
        /\ lastPoint.value \in
               { applyNoise(lastIndex - 1, valueBefore - valueTaken(undoneLast),
                            draw, volatility(assets)) :
                     draw \in RandomDraws \cup {MidDraw} }

C23_Witness ==
    /\ screen = "chart"
    /\ lastIndex > 1
    /\ lastPoint.cost > 0
    /\ \E k \in 1..Len(undoneLast) :
           undoneLast[k].type = "SELL" /\ undoneLast[k].fee > 0
    /\ \E k \in 1..Len(undoneLast) : undoneLast[k].type = "BUY"
    /\ \E k \in 1..Len(undoneLast) :
           txCurrency(undoneLast[k], assets, baseCurrency) # baseCurrency

\* The iterations of the finished loop that have undone a transaction.
undoingIterations(t) ==
    { k \in 1..Len(dataPoints) :
        \E m \in 1..Len(daysTransactions(transactions, dataPoints[k].date)) :
            daysTransactions(transactions, dataPoints[k].date)[m] = t }

\* C24: a transaction whose date string names day D, with or without a time
\* of day, is undone in the iteration of day D and in no other: every
\* iteration dated D undoes it, and no more than one iteration does.
C24_DateBucketing ==
    ChartDone =>
        \A j \in 1..Len(transactions) :
            /\ \A k \in 1..Len(dataPoints) :
                   dataPoints[k].date = transactions[j].date =>
                       k \in undoingIterations(transactions[j])
            /\ Cardinality(undoingIterations(transactions[j])) <= 1

\* The logs that are permutations of the transaction log.
permutedLogs ==
    { [k \in 1..Len(transactions) |-> transactions[f[k]]] :
          f \in Permutations(1..Len(transactions)) }

\* C25: whatever the order of the log, an iteration starts the range at the
\* same instant, leaves the same cost and the same value before the
\* perturbation, hence the same point under the same draw; the transactions
\* of a day are undone in log order.
C25_PermutationInvariant ==
    (screen = "chart" /\ lastIndex > 0) =>
        /\ \A log \in permutedLogs :
               /\ Len(log) > 0 => minTime(log) = minTime(transactions)
               /\ clampCost(replayCost(costBefore,
                                       daysTransactions(log, lastPoint.date),
                                       assets, baseCurrency, exchangeRates))
                      = lastPoint.cost
               /\ replayValue(valueBefore, daysTransactions(log, lastPoint.date),
                              assets, baseCurrency, exchangeRates)
                      = valueUndone
        /\ undoneLast =
               SelectSeq(transactions, LAMBDA t : dateEquals(t, lastPoint.date))

C25_Witness ==
    /\ screen = "chart"
    /\ lastIndex > 0
    /\ Len(undoneLast) = 2
    /\ undoneLast[1].type = "BUY"
    /\ undoneLast[2].type = "SELL"
    /\ costBefore - baseTotal(undoneLast[1]) < 0
    /\ lastPoint.cost > 0
    /\ Cardinality(permutedLogs) = 2

\* The transactions dated from the day of the start of the range to today.
inWindow ==
    SelectSeq(transactions,
              LAMBDA t : toISODate(startDate) <= t.date /\ t.date <= toISODate(now))

\* The cost of an iteration of the finished loop before the floor is applied.
costUnfloored(k) ==
    (IF k = 1 THEN currentCostBasis ELSE dataPoints[k - 1].cost)
        - costUndone(daysTransactions(transactions, dataPoints[k].date))

\* The floor has acted in no iteration of the finished loop.
floorIdle == \A k \in 1..Len(dataPoints) : costUnfloored(k) >= 0

\* C26: when the floor has acted in no iteration, the cost of the oldest point
\* returned is the snapshot cost basis minus the base-currency totals of the
\* Buys dated in the window plus the base-currency quantity x price of the
\* Sells dated in the window: each of them is undone exactly once, and no
\* transaction dated outside the window is undone.
C26_UndoneOnce ==
    (ChartDone /\ Len(chartData) > 0 /\ floorIdle) =>
        chartData[1].cost = currentCostBasis - costUndone(inWindow)

\* No transaction of the log is dated on the day.
quietDay(day) == \A j \in 1..Len(transactions) : transactions[j].date # day

\* C27: a point of a day without transactions carries the cost of the point
\* of the day after it, pushed just before it; with an empty log every point
\* carries the cost of today's point.
C27_QuietDayKeepsCost ==
    (screen = "chart" /\ lastIndex > 0) =>
        /\ (lastIndex > 1 /\ quietDay(lastPoint.date)) =>
               lastPoint.cost = dataPoints[lastIndex - 1].cost
        /\ Len(transactions) = 0 => lastPoint.cost = dataPoints[1].cost

C27_Witness ==
    /\ screen = "chart"
    /\ lastIndex > 1
    /\ Len(transactions) > 0
    /\ quietDay(lastPoint.date)
    /\ lastPoint.cost > 0
    /\ lastPoint.cost # currentCostBasis

\* The request of run r is answered in the step.
answered(r) ==
    /\ r <= Len(risk.runs)
    /\ risk.runs[r].request = "pending"
    /\ risk'.runs[r].request \in {"resolved", "rejected"}

\* C28: the answer to a request whose effect run has been cleaned up leaves
\* riskData, riskError and loadingRisk as they are, and riskData is set only
\* by the answer to the request of the latest effect run.
C28_StaleAnswerIgnored ==
    [][ \A r \in 1..MaxEffectRuns :
            answered(r) =>
                /\ ~risk.runs[r].isMounted =>
                       /\ risk'.riskData = risk.riskData
                       /\ risk'.riskError = risk.riskError
                       /\ risk'.loadingRisk = risk.loadingRisk
                /\ risk'.riskData # risk.riskData =>
                       (r = Len(risk.runs) /\ risk.mounted) ]_vars

C28_Witness ==
    /\ screen = "risk"
    /\ risk.mounted
    /\ Len(risk.runs) = 3
    /\ risk.runs[1].request = "resolved"
    /\ risk.runs[2].request = "rejected"
    /\ risk.runs[3].request = "pending"
    /\ risk.riskData = <<>>
    /\ ~risk.riskError

\* No request of the effect run that ran last is in flight.
currentIdle ==
    risk.runs # <<>> /\ risk.runs[Len(risk.runs)].request # "pending"

\* C29: while Analytics stays mounted and every request is answered in the
\* end, loadingRisk returns to false whenever it is true, and it does not stay
\* true for ever with no request of the current effect run in flight.
C29_LoadingEnds ==
    ([](screen = "risk" /\ risk.mounted)) =>
        /\ [](risk.loadingRisk => <>(~risk.loadingRisk))
        /\ []<>(~(risk.loadingRisk /\ currentIdle))

\* The ids of the assets of a list.
idsOf(as) == { as[k].id : k \in 1..Len(as) }

\* The form holds an input the claim has a submit refuse: a quantity that is
\* no number or not positive, a price that is no number or negative, or a
\* new asset without symbol.
refusable ==
    \/ isNaN(parseFloat(form.quantity)) \/ parseFloat(form.quantity).num <= 0
    \/ isNaN(parseFloat(form.price)) \/ parseFloat(form.price).num < 0
    \/ (form.isNewAsset /\ form.newSymbol = "")

\* C30: a transaction the form records references an asset of the list or the
\* asset the same submit has added, and is no Sell when the submit has added
\* an asset; from a form with a refusable input no step adds an asset or a
\* transaction, and only the close button closes the form.
C30_FormSafety ==
    [][ screen = "form" =>
          /\ transactions' # transactions =>
                 /\ transactions'[Len(transactions')].assetId \in idsOf(assets')
                 /\ assets' # assets =>
                        /\ transactions'[Len(transactions')].type = "BUY"
                        /\ transactions'[Len(transactions')].assetId
                               \notin idsOf(assets)
          /\ (form.isOpen /\ refusable) =>
                 /\ assets' = assets
                 /\ transactions' = transactions
                 /\ ~form'.isOpen => Close ]_vars

===========================================================================
